---- MODULE Spec2Model ----
(***************************************************************************)
(* Model of server.js: the Express handlers for media upload, likes and    *)
(* comments, over a PostgreSQL pool (tables posts, likes, comments) and    *)
(* the Cloudinary uploader.  Every `await pool.query` and the upload_stream *)
(* callback is a suspension point: the code between two of them runs       *)
(* atomically on the event loop, and requests interleave at them.          *)
(* server.js creates no table and names no constraint: a statement either  *)
(* takes effect as written or is rejected by the database, for any reason. *)
(***************************************************************************)
EXTENDS Integers, Sequences, FiniteSets, TLC

\* Number of HTTP requests the model lets arrive.
MaxReq == 3

Req == 1..MaxReq

\* req.params.id values the requests carry; a post with that id may or may not exist.
PostIds == {1, 2}

\* The ids the next request may name when the posts table is ps: an existing
\* post, or the first id that names none.
TargetIds(ps) == PostIds \cap (1..(Len(ps) + 1))

\* req.ip values, in the order in which new identities appear.
IpOrder == <<"ip1", "ip2">>

Ips == {IpOrder[i] : i \in 1..Len(IpOrder)}

\* req.file is absent (FALSE) or present (TRUE); the handler never looks into
\* file.buffer, so every file the model uploads holds the same bytes.
Files == BOOLEAN

\* req.body.text values; "" stands for an empty or missing text (both are falsy).
Texts == {"", "hi"}

\* result.resource_type values the blob store detects.
Kinds == {"image"}

VARIABLES
    posts,     \* table posts: sequence of rows, row i has id i
    likes,     \* table likes: sequence of rows (post_id, user_ip)
    comments,  \* table comments: sequence of rows (id, post_id, text, created_at)
    blobs,     \* blob store: the references it has returned
    arrived,   \* number of requests received so far
    req        \* per request: parameters, position in its handler, response

vars == <<posts, likes, comments, blobs, arrived, req>>

\* likes and comments columns of a new posts row (column default of the table).
DefaultCount == 0

\* The reference the blob store returns for its n-th stored blob (secure_url).
SecureUrl(n) == <<"https", n>>

NoUrl == <<>>

\* res.json(undefined): the body of a 200 response whose row is undefined.
Undefined == [undefined |-> TRUE]

ErrorBody(msg) == [error |-> msg]

NoResponse == [status |-> 0, body |-> Undefined]

NewReq ==
    [kind |-> "none", postId |-> 0, userIp |-> "", text |-> "", file |-> FALSE,
     pc |-> "new", res |-> NoResponse, result |-> [secure_url |-> NoUrl, resource_type |-> ""],
     sent |-> 0, conn |-> FALSE, conflict |-> FALSE, sawLike |-> FALSE, hadPost |-> FALSE, inserted |-> 0, incremented |-> FALSE, failed |-> FALSE]

PostExists(ps, id) == id \in 1..Len(ps)

\* SELECT * FROM likes WHERE post_id = $1 AND user_ip = $2
SelectLikes(ls, postId, userIp) ==
    {i \in 1..Len(ls) : ls[i].post_id = postId /\ ls[i].user_ip = userIp}

\* Rows of a table that reference post p.
RowsOf(tbl, p) == {i \in 1..Len(tbl) : tbl[i].post_id = p}

\* res.status(s).json(b) in the handler of request r; sent counts the calls.  The
\* handler responds after its last query has settled, so it holds no connection.
Respond(rq, r, s, b) ==
    [rq EXCEPT ![r].res = [status |-> s, body |-> b], ![r].pc = "done", ![r].sent = @ + 1,
               ![r].conn = FALSE]

\* await pool.query(...): the handler of r waits at pc while a connection of the
\* pool serves its query.
Query(rq, r, pc) == [rq EXCEPT ![r].pc = pc, ![r].conn = TRUE]

\* A rejected query or upload: the catch block (or the callback's error branch) answers 500.
Fail(rq, r, msg) ==
    [Respond(rq, r, 500, ErrorBody(msg)) EXCEPT ![r].failed = TRUE]

\* The request parameters express hands to the handler.
Receive(r, k, p, ip, t, f) ==
    [req EXCEPT ![r].kind = k, ![r].postId = p, ![r].userIp = ip, ![r].text = t, ![r].file = f]

\* Requests are numbered in order of arrival.
Arrive(r) ==
    /\ arrived < MaxReq
    /\ r = arrived + 1
    /\ arrived' = r

Init ==
    /\ posts = <<>>
    /\ likes = <<>>
    /\ comments = <<>>
    /\ blobs = {}
    /\ arrived = 0
    /\ req = [r \in Req |-> NewReq]

-----------------------------------------------------------------------------
(* POST /api/upload *)

\* The id a new posts row gets: store-assigned, one more than the last (column
\* default of the table).
NextId(ps) == Len(ps) + 1

\* NewPostRow with the url not taken from the upload's result.
NewPostRowNoUrl(id, result) ==
    [id |-> id, url |-> NoUrl, type |-> result.resource_type,
     likes |-> DefaultCount, comments |-> DefaultCount]

\* The row INSERT INTO posts (url, type) VALUES ($1, $2) RETURNING * creates.
NewPostRow(id, result) ==
    [id |-> id, url |-> result.secure_url, type |-> result.resource_type,
     likes |-> DefaultCount, comments |-> DefaultCount]

\* UploadStart with a connection checked out of the pool before the upload.
UploadStartHolding(r) ==
    /\ Arrive(r)
    /\ \E file \in Files :
        LET rq == Receive(r, "upload", 0, "", "", file) IN
        IF ~file
        THEN req' = Respond(rq, r, 400, ErrorBody("No file uploaded"))
        ELSE \/ req' = Query(rq, r, "upload")
             \/ req' = Fail(rq, r, "Error uploading file")
    /\ UNCHANGED <<posts, likes, comments, blobs>>

\* Handler entry: a missing file answers 400; otherwise the upload stream is
\* started, and an exception thrown while starting it is answered 500 by the
\* outer catch block.
UploadStart(r) ==
    /\ Arrive(r)
    /\ \E file \in Files :
        LET rq == Receive(r, "upload", 0, "", "", file) IN
        IF ~file
        THEN req' = Respond(rq, r, 400, ErrorBody("No file uploaded"))
        ELSE \/ req' = [rq EXCEPT ![r].pc = "upload"]
             \/ req' = Fail(rq, r, "Error uploading file")
    /\ UNCHANGED <<posts, likes, comments, blobs>>

\* UploadError without its return: the handler goes on to the posts insert.
UploadErrorNoReturn(r) ==
    /\ req[r].pc = "upload"
    /\ req' = [req EXCEPT ![r].pc = "insertPost", ![r].failed = TRUE]
    /\ UNCHANGED <<posts, likes, comments, blobs, arrived>>

\* UploadError without its return: 500 is answered and the handler goes on to
\* the posts insert, which answers again.
UploadErrorThenInsert(r) ==
    /\ req[r].pc = "upload"
    /\ req' = Query(Fail(req, r, "Upload to Cloudinary failed"), r, "insertPost")
    /\ UNCHANGED <<posts, likes, comments, blobs, arrived>>

\* The upload_stream callback with an error: nothing is stored, 500 is answered.
UploadError(r) ==
    /\ req[r].pc = "upload"
    /\ req' = Fail(req, r, "Upload to Cloudinary failed")
    /\ UNCHANGED <<posts, likes, comments, blobs, arrived>>

\* What the callback does with a result: keep it for the posts insert.
UploadResult(rq, r, result) ==
    Query([rq EXCEPT ![r].result = result], r, "insertPost")

\* The upload_stream callback with a result: the blob is stored under a new reference.
UploadDone(r) ==
    /\ req[r].pc = "upload"
    /\ \E kind \in Kinds :
        LET url == SecureUrl(Cardinality(blobs) + 1) IN
        /\ blobs' = blobs \cup {url}
        /\ req' = UploadResult(req, r, [secure_url |-> url, resource_type |-> kind])
    /\ UNCHANGED <<posts, likes, comments, arrived>>

\* InsertPost with a compensating delete: a rejected insert removes the blob again.
InsertPostCompensating(r) ==
    /\ req[r].pc = "insertPost"
    /\ \/ LET row == NewPostRow(NextId(posts), req[r].result) IN
          /\ posts' = Append(posts, row)
          /\ req' = [Respond(req, r, 200, row) EXCEPT ![r].inserted = row.id]
          /\ UNCHANGED blobs
       \/ /\ req' = Fail(req, r, "Database insert failed")
          /\ blobs' = blobs \ {req[r].result.secure_url}
          /\ UNCHANGED posts
    /\ UNCHANGED <<likes, comments, arrived>>

\* InsertPost with deduplication: when a post is stored already, its row is
\* answered and nothing is inserted.
InsertPostDedup(r) ==
    /\ req[r].pc = "insertPost"
    /\ \/ IF posts # <<>>
          THEN /\ req' = [Respond(req, r, 200, posts[1]) EXCEPT ![r].inserted = 1]
               /\ UNCHANGED posts
          ELSE LET row == NewPostRow(NextId(posts), req[r].result) IN
               /\ posts' = Append(posts, row)
               /\ req' = [Respond(req, r, 200, row) EXCEPT ![r].inserted = row.id]
       \/ /\ req' = Fail(req, r, "Database insert failed")
          /\ UNCHANGED posts
    /\ UNCHANGED <<likes, comments, blobs, arrived>>

\* await pool.query("INSERT INTO posts ...") and the response that follows it.
InsertPost(r) ==
    /\ req[r].pc = "insertPost"
    /\ \/ LET row == NewPostRow(NextId(posts), req[r].result) IN
          /\ posts' = Append(posts, row)
          /\ req' = [Respond(req, r, 200, row) EXCEPT ![r].inserted = row.id]
       \/ /\ req' = Fail(req, r, "Database insert failed")
          /\ UNCHANGED posts
    /\ UNCHANGED <<likes, comments, blobs, arrived>>

-----------------------------------------------------------------------------
(* POST /api/posts/:id/like *)

\* AlreadyLiked with the test on the lookup's rows left out.
AlreadyLikedNever(rows) == FALSE

\* if (existingLike.rows.length > 0): the duplicate test on the lookup's rows.
AlreadyLiked(rows) == rows # {}

\* Identities are interchangeable: a request comes from one already seen or from the next.
SeenIps == {req[q].userIp : q \in Req} \cap Ips

NextIps ==
    LET n == Cardinality(SeenIps) + 1
    IN  {IpOrder[i] : i \in 1..(IF n < Len(IpOrder) THEN n ELSE Len(IpOrder))}

\* Handler entry and the lookup it awaits (the handler reads no table before the
\* lookup runs, so a request arrives when its lookup is answered): a found row
\* answers 400, a rejected lookup 500, otherwise the insert is issued.
Like(r) ==
    /\ Arrive(r)
    /\ \E p \in TargetIds(posts), ip \in NextIps :
        LET rows == SelectLikes(likes, p, ip)
            rq == [Receive(r, "like", p, ip, "", FALSE) EXCEPT
                      ![r].sawLike = rows # {}, ![r].hadPost = PostExists(posts, p)]
        IN  \/ IF AlreadyLiked(rows)
               THEN req' = Respond(rq, r, 400, ErrorBody("You have already liked this post"))
               ELSE req' = Query(rq, r, "insertLike")
            \/ req' = Fail(rq, r, "Error liking post")
    /\ UNCHANGED <<posts, likes, comments, blobs>>

\* Whether a rejection of the likes insert can be the violation of a uniqueness
\* constraint on (post_id, user_ip): only when a row with the key is stored.
UniqueViolation(ls, postId, userIp) ==
    IF SelectLikes(ls, postId, userIp) # {} THEN BOOLEAN ELSE {FALSE}

\* INSERT INTO likes (post_id, user_ip) VALUES ($1, $2): the row is stored, or
\* the insert is rejected and the catch block answers 500 whatever the cause.
InsertLike(r) ==
    /\ req[r].pc = "insertLike"
    /\ \/ /\ likes' = Append(likes, [post_id |-> req[r].postId, user_ip |-> req[r].userIp])
          /\ req' = [Query(req, r, "updateLikes") EXCEPT ![r].inserted = Len(likes) + 1]
       \/ /\ \E unique \in UniqueViolation(likes, req[r].postId, req[r].userIp) :
                req' = [Fail(req, r, "Error liking post") EXCEPT ![r].conflict = unique]
          /\ UNCHANGED likes
    /\ UNCHANGED <<posts, comments, blobs, arrived>>

\* IncrementLikes as a write of a value computed from a stale read of the counter.
IncrementLikesStale(ps, p) ==
    IF PostExists(ps, p) THEN [ps EXCEPT ![p].likes = DefaultCount + 1] ELSE ps

\* IncrementLikes with a SET clause that also resets the url.
IncrementLikesResetsUrl(ps, p) ==
    IF PostExists(ps, p) THEN [ps EXCEPT ![p].likes = @ + 1, ![p].url = NoUrl] ELSE ps

\* UPDATE posts SET likes = likes + 1 WHERE id = $1
IncrementLikes(ps, p) ==
    IF PostExists(ps, p) THEN [ps EXCEPT ![p].likes = @ + 1] ELSE ps

\* RETURNING *: rows[0] of the update, undefined when no row matched.
Returning(ps, p) ==
    IF PostExists(ps, p) THEN ps[p] ELSE Undefined

\* The update completes and res.json(result.rows[0]) answers 200.
UpdateLikes(r) ==
    /\ req[r].pc = "updateLikes"
    /\ \/ /\ posts' = IncrementLikes(posts, req[r].postId)
          /\ req' = [Respond(req, r, 200, Returning(posts', req[r].postId)) EXCEPT
                        ![r].incremented = PostExists(posts, req[r].postId)]
       \/ /\ req' = Fail(req, r, "Error liking post")
          /\ UNCHANGED posts
    /\ UNCHANGED <<likes, comments, blobs, arrived>>

-----------------------------------------------------------------------------
(* POST /api/posts/:id/comment *)

\* InvalidComment with the input test left out.
InvalidCommentNever(text, postId) == FALSE

\* if (!text || !postId): the input test of the comment handler.
InvalidComment(text, postId) == text = "" \/ postId = 0

\* The created_at a new comments row gets: the time of its insertion, later than
\* that of every row already stored (column default of the table).
InsertionTime(cs) == Len(cs) + 1

\* The row INSERT INTO comments (post_id, text) VALUES ($1, $2) RETURNING * creates.
NewCommentRow(id, postId, text) ==
    [id |-> id, post_id |-> postId, text |-> text, created_at |-> InsertionTime(comments)]

\* Handler entry and the insert it awaits (the handler reads no table before the
\* insert runs): invalid input answers 400 without a query, a rejected insert 500,
\* otherwise the row is stored and the counter update is issued.
Comment(r) ==
    /\ Arrive(r)
    /\ \E p \in TargetIds(posts), t \in Texts :
        LET rq == Receive(r, "comment", p, "", t, FALSE)
            row == NewCommentRow(Len(comments) + 1, p, t)
        IN  IF InvalidComment(t, p)
            THEN /\ req' = Respond(rq, r, 400, ErrorBody("Comment text is required"))
                 /\ UNCHANGED comments
            ELSE \/ /\ comments' = Append(comments, row)
                    /\ req' = [Query(rq, r, "updateComments") EXCEPT ![r].inserted = row.id]
                 \/ /\ req' = Fail(rq, r, "Error posting comment")
                    /\ UNCHANGED comments
    /\ UNCHANGED <<posts, likes, blobs>>

\* IncrementComments with the WHERE clause left out: every post is incremented.
IncrementCommentsAll(ps, p) ==
    [i \in 1..Len(ps) |-> [ps[i] EXCEPT !.comments = @ + 1]]

\* UPDATE posts SET comments = comments + 1 WHERE id = $1
IncrementComments(ps, p) ==
    IF PostExists(ps, p) THEN [ps EXCEPT ![p].comments = @ + 1] ELSE ps

\* The update completes and res.json(result.rows[0]) answers 200 with the comment row.
UpdateComments(r) ==
    /\ req[r].pc = "updateComments"
    /\ \/ /\ posts' = IncrementComments(posts, req[r].postId)
          /\ req' = [Respond(req, r, 200, comments[req[r].inserted]) EXCEPT
                        ![r].incremented = PostExists(posts, req[r].postId)]
       \/ /\ req' = Fail(req, r, "Error posting comment")
          /\ UNCHANGED posts
    /\ UNCHANGED <<likes, comments, blobs, arrived>>

-----------------------------------------------------------------------------
(* GET /api/posts *)

RECURSIVE Reverse(_)
Reverse(sq) == IF sq = <<>> THEN <<>> ELSE Reverse(Tail(sq)) \o <<Head(sq)>>

\* SELECT * FROM posts ORDER BY id DESC (row i of the table has id i).
SelectPosts(ps) == Reverse(ps)

\* The whole handler (it reads the table once, when its query is answered):
\* 200 with the rows, or 500 when the query is rejected.
GetPosts(r) ==
    /\ Arrive(r)
    /\ LET rq == Receive(r, "posts", 0, "", "", FALSE) IN
       \/ req' = Respond(rq, r, 200, [rows |-> SelectPosts(posts)])
       \/ req' = Fail(rq, r, "Failed to fetch posts")
    /\ UNCHANGED <<posts, likes, comments, blobs>>

-----------------------------------------------------------------------------
(* GET /api/posts/:id/comments *)

\* A row of cs among those numbered in S that sorts first (ORDER BY created_at ASC).
Oldest(cs, S) == CHOOSE i \in S : \A j \in S : cs[i].created_at <= cs[j].created_at

\* A row of cs among those numbered in S that sorts first under ORDER BY created_at DESC.
Newest(cs, S) == CHOOSE i \in S : \A j \in S : cs[i].created_at >= cs[j].created_at

RECURSIVE Ordered(_, _)
\* The rows of cs numbered in S in the order of the ORDER BY clause.
Ordered(cs, S) ==
    IF S = {} THEN <<>>
    ELSE LET i == Newest(cs, S) IN <<cs[i]>> \o Ordered(cs, S \ {i})

\* SELECT * FROM comments WHERE post_id = $1 ORDER BY created_at DESC
SelectComments(cs, p) == Ordered(cs, RowsOf(cs, p))

\* The whole handler (it reads the table once, when its query is answered):
\* 200 with the rows, or 500 when the query is rejected.
GetComments(r) ==
    /\ Arrive(r)
    /\ \E p \in TargetIds(posts) :
        LET rq == Receive(r, "comments", p, "", "", FALSE) IN
        \/ req' = Respond(rq, r, 200, [rows |-> SelectComments(comments, p)])
        \/ req' = Fail(rq, r, "Failed to fetch comments")
    /\ UNCHANGED <<posts, likes, comments, blobs>>

-----------------------------------------------------------------------------
(* GET /api/posts/:id/download *)

\* SelectPost with the WHERE clause left out: the first row of the table.
SelectPostAny(ps, p) == IF ps # <<>> THEN ps[1] ELSE Undefined

\* SELECT * FROM posts WHERE id = $1, then result.rows[0].
SelectPost(ps, p) == IF PostExists(ps, p) THEN ps[p] ELSE Undefined

\* res.redirect(post.url): 302 with the url as Location.
Redirect(rq, r, url) == Respond(rq, r, 302, [location |-> url])

\* The whole handler (it reads the table once, when its query is answered):
\* 404 when no row is found, a redirect to the row's url otherwise, or 500 when
\* the query is rejected.
Download(r) ==
    /\ Arrive(r)
    /\ \E p \in TargetIds(posts) :
        LET rq == Receive(r, "download", p, "", "", FALSE)
            post == SelectPost(posts, p)
        IN  \/ IF post = Undefined
               THEN req' = Respond(rq, r, 404, ErrorBody("Post not found"))
               ELSE req' = Redirect(rq, r, post.url)
            \/ req' = Fail(rq, r, "Error downloading post")
    /\ UNCHANGED <<posts, likes, comments, blobs>>

-----------------------------------------------------------------------------

Next ==
    \E r \in Req :
        \/ UploadStart(r)
        \/ UploadError(r)
        \/ UploadDone(r)
        \/ InsertPost(r)
        \/ Like(r)
        \/ InsertLike(r)
        \/ UpdateLikes(r)
        \/ Comment(r)
        \/ UpdateComments(r)
        \/ GetPosts(r)
        \/ GetComments(r)
        \/ Download(r)

Spec == Init /\ [][Next]_vars

\* The blob-store call or database query request r waits for completes, with a
\* result or with an error.
Completes(r) ==
    \/ UploadError(r)
    \/ UploadDone(r)
    \/ InsertPost(r)
    \/ InsertLike(r)
    \/ UpdateLikes(r)
    \/ UpdateComments(r)

\* Every blob-store call and every database query eventually completes.
FairSpec == Spec /\ \A r \in Req : WF_vars(Completes(r))

-----------------------------------------------------------------------------
(* Properties *)

Done(r) == req[r].pc = "done"

\* The requests of one kind.
Requests(k) == {r \in Req : req[r].kind = k}

\* The like requests on post p.
LikesOn(p) == {r \in Requests("like") : req[r].postId = p}

\* The comment requests on post p.
CommentsOn(p) == {r \in Requests("comment") : req[r].postId = p}

\* C1: in every reachable state, every post's likes counter equals the number
\* of likes rows with its post_id.
C1_LikeCountEqualsRows ==
    \A p \in 1..Len(posts) : posts[p].likes = Cardinality(RowsOf(likes, p))

\* The like requests with key (p, ip) that found post p in place when they arrived.
LikesWithKey(p, ip) == {r \in LikesOn(p) : req[r].userIp = ip /\ req[r].hadPost}

\* C2: of the like requests on an existing post with the same (postId,
\* clientIdentity), at most one ever inserts a likes row and at most one
\* increments the post's counter, so at most one likes row exists for the pair.
C2_OneLikePerKey ==
    \A p \in PostIds, ip \in Ips :
        /\ Cardinality({r \in LikesWithKey(p, ip) : req[r].inserted # 0}) <= 1
        /\ Cardinality({r \in LikesWithKey(p, ip) : req[r].incremented}) <= 1
        /\ LikesOn(p) = LikesWithKey(p, ip) => Cardinality(SelectLikes(likes, p, ip)) <= 1

\* The like requests on p came from distinct identities, found the post in
\* place when they arrived, and have all been answered 200.
AllLikedDistinct(p) ==
    /\ \A r \in LikesOn(p) : Done(r) /\ req[r].res.status = 200 /\ req[r].hadPost
    /\ \A r, q \in LikesOn(p) : r # q => req[r].userIp # req[q].userIp

\* C3: once K like requests from K distinct identities on an existing post have
\* all completed successfully, in any interleaving, the post's counter is K and
\* exactly K likes rows exist for it.
C3_DistinctLikesCounted ==
    \A p \in 1..Len(posts) :
        AllLikedDistinct(p) =>
            /\ posts[p].likes = Cardinality(LikesOn(p))
            /\ Cardinality(RowsOf(likes, p)) = Cardinality(LikesOn(p))

\* C3 witness: two identities have liked post 1 successfully.
C3_Witness ==
    /\ PostExists(posts, 1)
    /\ AllLikedDistinct(1)
    /\ Cardinality(LikesOn(1)) = 2
    /\ posts[1].likes = 2

\* The like requests that arrived when a likes row for their key existed.
Duplicates == {r \in Requests("like") : req[r].sawLike}

\* C4 as stated: a like request that arrives when a likes row for its key
\* exists is answered 400 and changes neither the likes table nor a counter.
C4_DuplicateAnswered400 ==
    \A r \in Duplicates :
        Done(r) => req[r].res.status = 400 /\ req[r].inserted = 0 /\ ~req[r].incremented

\* C4 amended: such a request is answered 400, or 500 when its lookup query is
\* rejected, and in both cases changes neither the likes table nor a counter.
C4_DuplicateNeverWrites ==
    \A r \in Duplicates :
        /\ Done(r)
        /\ req[r].inserted = 0 /\ ~req[r].incremented
        /\ IF req[r].failed
           THEN req[r].res = [status |-> 500, body |-> ErrorBody("Error liking post")]
           ELSE req[r].res =
                    [status |-> 400, body |-> ErrorBody("You have already liked this post")]

\* C4 witness: a repeated like has been answered 400 after the first was counted.
C4_Witness ==
    \E r \in Duplicates, q \in Requests("like") :
        /\ req[r].res.status = 400
        /\ req[q].res.status = 200 /\ req[q].incremented
        /\ req[q].postId = req[r].postId /\ req[q].userIp = req[r].userIp
        /\ posts[req[r].postId].likes = 1

\* C5: a like request on a post id that names no post is never answered 200.
C5_LikeOfMissingPostFails ==
    \A r \in Requests("like") :
        Done(r) /\ ~PostExists(posts, req[r].postId) => req[r].res.status # 200

\* The upload requests whose blob upload ended with an error or never started.
FailedUploads ==
    {r \in Requests("upload") : req[r].file /\ req[r].failed /\ req[r].result.secure_url = NoUrl}

\* C6: every posts row carries a url the blob store returned, and an upload
\* request whose blob upload failed is answered 500 and writes no posts row.
C6_PostOnlyAfterUpload ==
    /\ \A p \in 1..Len(posts) :
        /\ posts[p].url \in blobs
        /\ \E r \in Requests("upload") \ FailedUploads :
            req[r].inserted = p /\ req[r].result.secure_url = posts[p].url
    /\ \A r \in FailedUploads :
        Done(r) /\ req[r].res.status = 500 /\ req[r].inserted = 0

\* C6 witness: one upload has failed in the blob store, another has been stored
\* and recorded.
C6_Witness ==
    /\ FailedUploads # {}
    /\ Len(posts) = 1
    /\ \E r \in Requests("upload") : req[r].inserted = 1 /\ req[r].res.status = 200

\* C7 as stated: in every reachable state, every post's comments counter equals
\* the number of comments rows with its post_id.
C7_CommentCountEqualsRows ==
    \A p \in 1..Len(posts) : posts[p].comments = Cardinality(RowsOf(comments, p))

\* C7 amended: every post's comments counter equals the number of comment
\* requests whose insert and increment have both been applied to it; it never
\* exceeds the number of comments rows with its post_id, and equals that number
\* whenever every request that inserted such a row has also incremented.
C7_CommentCountAtMostRows ==
    \A p \in 1..Len(posts) :
        /\ posts[p].comments = Cardinality({r \in CommentsOn(p) : req[r].incremented})
        /\ posts[p].comments <= Cardinality(RowsOf(comments, p))
        /\ (\A r \in CommentsOn(p) : req[r].inserted # 0 => req[r].incremented)
               => posts[p].comments = Cardinality(RowsOf(comments, p))

\* C7 witness: a comment's increment was rejected after its row was stored, and
\* another comment on the same post was counted.
C7_Witness ==
    \E r, q \in Requests("comment") :
        /\ req[r].postId = req[q].postId /\ PostExists(posts, req[r].postId)
        /\ Done(r) /\ req[r].failed /\ req[r].inserted # 0
        /\ Done(q) /\ req[q].incremented
        /\ posts[req[r].postId].comments = 1
        /\ Cardinality(RowsOf(comments, req[r].postId)) = 2

\* C8: in every reachable state, every comments row's post_id names an existing post.
C8_CommentsNamePosts ==
    \A i \in 1..Len(comments) : PostExists(posts, comments[i].post_id)

\* C9: a like or comment request answered 200 has applied both its row insert
\* and its counter increment on an existing post, and a request one of whose
\* steps failed is never answered 200.
C9_SuccessMeansApplied ==
    \A r \in Requests("like") \cup Requests("comment") :
        Done(r) =>
            /\ req[r].res.status = 200 => req[r].inserted # 0 /\ req[r].incremented
            /\ req[r].failed => req[r].res.status # 200

\* C10: an upload answered 200 returns a post whose url is non-empty and is the
\* reference the blob store returned, with likes 0 and comments 0.
C10_UploadReturnsFreshPost ==
    \A r \in Requests("upload") :
        req[r].res.status = 200 =>
            /\ req[r].res.body.url # NoUrl
            /\ req[r].res.body.url = req[r].result.secure_url
            /\ req[r].res.body.url \in blobs
            /\ req[r].res.body.likes = 0
            /\ req[r].res.body.comments = 0

\* C10 witness: two uploads have been answered 200, each with its own reference.
C10_Witness ==
    \E r, q \in Requests("upload") :
        /\ r # q
        /\ req[r].res.status = 200 /\ req[q].res.status = 200
        /\ req[r].res.body.url # req[q].res.body.url

\* The upload requests whose blob was stored and whose posts insert was rejected.
OrphanUploads ==
    {r \in Requests("upload") : Done(r) /\ req[r].failed /\ req[r].result.secure_url # NoUrl}

\* C11: an upload whose blob was stored and whose posts insert then fails is
\* answered 500 (database insert failed) exactly once, no posts row carries the
\* blob's reference, and the blob stays in the blob store.
C11_OrphanBlobKept ==
    \A r \in OrphanUploads :
        /\ req[r].res = [status |-> 500, body |-> ErrorBody("Database insert failed")]
        /\ req[r].sent = 1
        /\ req[r].inserted = 0
        /\ \A p \in 1..Len(posts) : posts[p].url # req[r].result.secure_url
        /\ req[r].result.secure_url \in blobs

\* C11 witness: one upload left an orphan blob, another one was recorded.
C11_Witness ==
    /\ OrphanUploads # {}
    /\ Len(posts) = 1
    /\ Cardinality(blobs) = 2

\* C12: a comment request with empty or missing text is answered 400 (comment
\* text is required) and writes neither a comments row nor a counter.
C12_EmptyCommentRejected ==
    \A r \in Requests("comment") :
        req[r].text = "" =>
            /\ req[r].res = [status |-> 400, body |-> ErrorBody("Comment text is required")]
            /\ req[r].inserted = 0 /\ ~req[r].incremented /\ ~req[r].failed
            /\ \A i \in 1..Len(comments) : comments[i].text # ""

\* C12 witness: an empty comment on an existing post was rejected and the post's
\* counter is still 0 with no comments row.
C12_Witness ==
    \E r \in Requests("comment") :
        /\ req[r].text = "" /\ req[r].res.status = 400
        /\ PostExists(posts, req[r].postId)
        /\ posts[req[r].postId].comments = 0
        /\ comments = <<>>

\* Request r takes the step that receives it as a request of kind k.
Received(r, k) == req[r].pc = "new" /\ req'[r].kind = k

DownloadAnswer(ps, p) ==
    IF PostExists(ps, p)
    THEN [status |-> 302, body |-> [location |-> ps[p].url]]
    ELSE [status |-> 404, body |-> ErrorBody("Post not found")]

\* C14 as stated: a download answers 404 for a post id that names no post and a
\* redirect to the stored url for an existing post, and leaves the posts,
\* comments and likes tables unchanged.
C14_DownloadAnswersOrNotFound ==
    [][\A r \in Req :
        Received(r, "download") =>
            /\ req'[r].res = DownloadAnswer(posts, req'[r].postId)
            /\ UNCHANGED <<posts, comments, likes>>
      ]_vars

\* C14 amended: as stated, except that a download whose query is rejected by the
\* database answers 500; the tables are unchanged in every case.
C14_DownloadIsPureRead ==
    [][\A r \in Req :
        Received(r, "download") =>
            /\ UNCHANGED <<posts, comments, likes>>
            /\ Done(r)'
            /\ IF req'[r].failed
               THEN req'[r].res =
                        [status |-> 500, body |-> ErrorBody("Error downloading post")]
               ELSE req'[r].res = DownloadAnswer(posts, req'[r].postId)
      ]_vars

\* C14 witness: one download was redirected to post 1's url, another was
\* answered 404.
C14_Witness ==
    \E r, q \in Requests("download") :
        /\ req[r].postId = 1 /\ PostExists(posts, 1)
        /\ req[r].res = [status |-> 302, body |-> [location |-> posts[1].url]]
        /\ req[q].res.status = 404 /\ ~PostExists(posts, req[q].postId)

\* The upload requests answered 200.
Uploaded == {r \in Requests("upload") : req[r].res.status = 200}

\* C15: two successful uploads of the same bytes create two posts rows with
\* different ids: ids are unique and every successful upload has a row of its own.
C15_UploadsNotDeduplicated ==
    /\ \A i \in 1..Len(posts) : posts[i].id = i
    /\ \A r \in Uploaded :
        /\ PostExists(posts, req[r].res.body.id)
        /\ posts[req[r].res.body.id].url = req[r].res.body.url
    /\ \A r, q \in Uploaded : r # q => req[r].res.body.id # req[q].res.body.id
    /\ Len(posts) = Cardinality(Uploaded)

\* C15 witness: two uploads that were in flight together have both succeeded.
C15_Witness ==
    \E r, q \in Uploaded :
        /\ r < q
        /\ req[r].res.body.id = 2 /\ req[q].res.body.id = 1
        /\ Len(posts) = 2

\* Table new holds every row of table old, unchanged and in place.
Extends(old, new) ==
    /\ Len(new) >= Len(old)
    /\ \A i \in 1..Len(old) : new[i] = old[i]

\* C16: no step changes the id, url or type of a stored posts row or removes it,
\* and no step changes or removes a stored likes or comments row.
C16_RowsImmutable ==
    [][/\ Len(posts') >= Len(posts)
       /\ \A p \in 1..Len(posts) :
            /\ posts'[p].id = posts[p].id
            /\ posts'[p].url = posts[p].url
            /\ posts'[p].type = posts[p].type
       /\ Extends(likes, likes')
       /\ Extends(comments, comments')
      ]_vars

\* C16 witness: post 1 was liked and commented and still carries the reference
\* and kind of its upload.
C16_Witness ==
    /\ PostExists(posts, 1)
    /\ posts[1].likes = 1 /\ posts[1].comments = 1
    /\ \E r \in Uploaded :
        /\ req[r].res.body.id = 1
        /\ posts[1].url = req[r].result.secure_url
        /\ posts[1].type = req[r].result.resource_type

\* The requests that wait for the blob store or for the database.
InFlight == {r \in Req : req[r].pc \notin {"new", "done"}}

\* The upload requests whose blob upload is in flight.
Uploading == {r \in Req : req[r].pc = "upload"}

\* The requests a connection of the pool is serving.
Connected == {r \in Req : req[r].conn}

\* C17: no upload request holds a connection of the pool while its blob upload
\* is in flight; connections serve only requests that wait for a query, so
\* uploads in flight take none away from like and comment requests.
C17_NoConnectionDuringUpload ==
    /\ Connected \cap Uploading = {}
    /\ Connected \subseteq InFlight
    /\ \A r \in Requests("upload") : req[r].conn => req[r].result.secure_url \in blobs

\* C17 witness: two blob uploads are in flight while a like request's query is
\* served by a connection.
C17_Witness ==
    /\ Cardinality(Uploading) = 2
    /\ \E r \in Requests("like") : req[r].conn

\* The like requests that lost a race on their key: their insert was rejected
\* by the uniqueness constraint, or their lookup returned the other's row.
RaceLosers ==
    {r \in Requests("like") : Done(r) /\ (req[r].conflict \/ (req[r].sawLike /\ ~req[r].failed))}

\* C18: a like request that loses the race on its key is answered 400 (already
\* liked), not 500.
C18_RaceLoserAnswered400 ==
    \A r \in RaceLosers : req[r].res.status = 400

\* The like requests whose likes row was stored and whose increment then failed.
Skewed == {r \in Requests("like") : Done(r) /\ req[r].failed /\ req[r].inserted # 0}

\* Once a like's row is stored and its increment has failed, the post's counter
\* is below its number of likes rows.
CounterBelowRows ==
    \A r \in Skewed :
        PostExists(posts, req[r].postId) =>
            posts[req[r].postId].likes < Cardinality(RowsOf(likes, req[r].postId))

\* Request q is received in this step as a like with the key of a skewed like.
LaterLike(q) ==
    /\ Received(q, "like")
    /\ \E r \in Skewed : req[r].postId = req'[q].postId /\ req[r].userIp = req'[q].userIp

\* C19 as stated: after a like's insert succeeded and its increment failed,
\* every later like request with the same key is answered 400 (already liked)
\* without incrementing, and the post's counter stays strictly below its number
\* of likes rows.
C19_SkewPermanentAnswered400 ==
    [][/\ CounterBelowRows'
       /\ \A q \in Req :
            LaterLike(q) => req'[q].res.status = 400 /\ UNCHANGED <<posts, likes>>
      ]_vars

\* C19 amended: every such later request is rejected without inserting or
\* incrementing, with 400 (already liked) or, when its lookup is rejected by the
\* database, with 500; the post's counter stays strictly below its number of
\* likes rows.
C19_SkewPermanent ==
    [][/\ CounterBelowRows'
       /\ \A q \in Req :
            LaterLike(q) =>
                /\ UNCHANGED <<posts, likes>>
                /\ Done(q)'
                /\ req'[q].res.status = (IF req'[q].failed THEN 500 ELSE 400)
      ]_vars

\* C19 witness: a like on existing post 1 left a row without a count, and a
\* later like with the same key was answered 400.
C19_Witness ==
    \E r \in Skewed, q \in Duplicates :
        /\ r < q
        /\ req[r].postId = 1 /\ req[q].postId = 1 /\ req[q].userIp = req[r].userIp
        /\ req[q].res.status = 400
        /\ PostExists(posts, 1) /\ posts[1].likes = 0
        /\ Cardinality(RowsOf(likes, 1)) = 1

\* Every request received so far has been answered, exactly once.
AllAnswered == \A r \in Req : req[r].pc # "new" => Done(r) /\ req[r].sent = 1

\* C20: no request is ever answered more than once, and, when every blob-store
\* call and database query eventually completes, every request received is
\* eventually answered exactly once (an answer is never taken back, so this is:
\* time and again all requests received so far have been answered).
C20_ExactlyOneResponse ==
    /\ [](\A r \in Req : req[r].sent <= 1)
    /\ [](\A r \in Req : Done(r) => req[r].sent = 1 /\ req[r].res.status # 0)
    /\ []<>AllAnswered

\* C20 witness: an upload, a like and a comment have each been answered once,
\* the upload after an error of the blob store.
C20_Witness ==
    \E u \in FailedUploads, l \in Requests("like"), c \in Requests("comment") :
        \A r \in {u, l, c} : Done(r) /\ req[r].sent = 1 /\ req[r].res.status # 0

====
